---- MODULE Spec2Model ----
(***************************************************************************)
(* Model of optimizer/profiler.py: the logical pipeline DAG and its path   *)
(* enumeration, the per-node profile (pruning, performance estimation)     *)
(* and the end-to-end pipeline estimate.                                   *)
(*                                                                         *)
(* Numbers.  Python floats are modelled as exact rationals <<n, d>>, d > 0,*)
(* in lowest terms.  Batch sizes are stored in units of 1/BatchDen so that *)
(* fractional (measured mean) batch sizes are representable.               *)
(***************************************************************************)
EXTENDS Integers, Sequences, FiniteSets, TLC

VARIABLES
    adj_list,        \* LogicalDAG.adj_list: node -> sequence of children
    stack,           \* call stack of search(): frames [current_path, next]
    paths,           \* the list `paths` of enumerate_paths
    pc,              \* position of enumerate_paths / the pipeline estimate
    node_configs,    \* estimate_pipeline_performance_for_config argument
    scale_factors,   \* estimate_pipeline_performance_for_config argument
    estimate,        \* value returned by the pipeline estimate
    valid,           \* value returned by is_valid_pipeline_config
    raw,             \* the DataFrame handed to NodeProfile.__init__
    profile,         \* NodeProfile.profile
    ppc,             \* position of the NodeProfile object's life cycle
    config,          \* argument of the last NodeProfile method call
    perf,            \* value returned by the last NodeProfile method call
    increases        \* configs returned so far by a search loop over
                     \* increase_batch_size

vars == <<adj_list, stack, paths, pc, node_configs, scale_factors, estimate,
          valid, raw, profile, ppc, config, perf, increases>>

dagVars == <<adj_list, stack, paths, pc>>
pipeVars == <<node_configs, scale_factors, estimate, valid>>
profVars == <<raw, profile, ppc, config, perf, increases>>

(***************************************************************************)
(* Rational arithmetic                                                     *)
(***************************************************************************)
Abs(x) == IF x < 0 THEN -x ELSE x

RECURSIVE Gcd(_, _)
Gcd(a, b) == IF b = 0 THEN a ELSE Gcd(b, a % b)

\* n/d in lowest terms with a positive denominator (d # 0)
Rat(n, d) ==
    LET g == Gcd(Abs(n), Abs(d))
        s == IF d < 0 THEN -1 ELSE 1
    IN  <<(s * n) \div g, (s * d) \div g>>

RatInt(i) == <<i, 1>>
RatAdd(x, y) == Rat(x[1] * y[2] + y[1] * x[2], x[2] * y[2])
RatMul(x, y) == Rat(x[1] * y[1], x[2] * y[2])
\* y # 0
RatDiv(x, y) == Rat(x[1] * y[2], x[2] * y[1])
RatLess(x, y) == x[1] * y[2] < y[1] * x[2]
RatLeq(x, y) == x[1] * y[2] <= y[1] * x[2]
RatMax(x, y) == IF RatLess(x, y) THEN y ELSE x

(***************************************************************************)
(* LogicalDAG                                                              *)
(***************************************************************************)
SOURCE == "SOURCE"
SINK == "SINK"

Stages == {"A", "B", "C"}
Nodes == {SOURCE, SINK} \cup Stages

\* bound on the number of children of a node in the enumerated graphs
MaxOutDegree == 3

\* a fixed ranking of the nodes, used only to enumerate the input graphs
Rank == [n \in Nodes |->
            CASE n = SOURCE -> 0
              [] n = "A" -> 1
              [] n = "B" -> 2
              [] n = "C" -> 3
              [] n = SINK -> 4]

Forward(n) == {m \in Nodes : Rank[m] > Rank[n]}

\* the elements of S as a sequence, by ascending or descending rank
RECURSIVE OrderedChildren(_, _)
OrderedChildren(S, asc) ==
    IF S = {} THEN <<>>
    ELSE LET first == CHOOSE m \in S :
                        \A k \in S : IF asc THEN Rank[m] <= Rank[k]
                                            ELSE Rank[m] >= Rank[k]
         IN  <<first>> \o OrderedChildren(S \ {first}, asc)

Last(s) == s[Len(s)]

\* the for loop of search() leaving out the last child
ChildrenButLast(a, node) == SubSeq(a[node], 1, Len(a[node]) - 1)

\* self.adj_list[node], the children iterated by the for loop of search()
Children(a, node) == a[node]

\* search() has just appended `node`: the base case, a KeyError, or the loop
Frame(current_path) == [current_path |-> current_path, next |-> 1]

Top == stack[Len(stack)]
TopNode == Last(Top.current_path)
Pop == SubSeq(stack, 1, Len(stack) - 1)

\* line 53-54: node == SINK, the path is recorded and the call returns
SearchSink ==
    /\ pc = "search"
    /\ stack # <<>>
    /\ TopNode = SINK
    /\ paths' = Append(paths, Top.current_path)
    /\ stack' = Pop
    /\ UNCHANGED <<adj_list, pc, pipeVars, profVars>>

\* line 56: self.adj_list[node] of a node that is no key of the map
SearchKeyError ==
    /\ pc = "search"
    /\ stack # <<>>
    /\ TopNode # SINK
    /\ TopNode \notin DOMAIN adj_list
    /\ pc' = "KeyError"
    /\ stack' = <<>>
    /\ UNCHANGED <<adj_list, paths, pipeVars, profVars>>

\* the loop of search() with a visited check: a child already on the current
\* path is skipped
SearchDescendUnvisited ==
    /\ pc = "search"
    /\ stack # <<>>
    /\ TopNode # SINK
    /\ TopNode \in DOMAIN adj_list
    /\ Top.next <= Len(Children(adj_list, TopNode))
    /\ LET next_node == Children(adj_list, TopNode)[Top.next]
           advanced == [stack EXCEPT ![Len(stack)].next = @ + 1]
       IN  stack' = IF next_node \in {Top.current_path[i] :
                                        i \in 1..Len(Top.current_path)}
                    THEN advanced
                    ELSE Append(advanced,
                                Frame(Append(Top.current_path, next_node)))
    /\ UNCHANGED <<adj_list, paths, pc, pipeVars, profVars>>

\* line 56-58: the next iteration of the for loop calls search on a copy
SearchDescend ==
    /\ pc = "search"
    /\ stack # <<>>
    /\ TopNode # SINK
    /\ TopNode \in DOMAIN adj_list
    /\ Top.next <= Len(Children(adj_list, TopNode))
    /\ LET next_node == Children(adj_list, TopNode)[Top.next]
       IN  stack' = Append([stack EXCEPT ![Len(stack)].next = @ + 1],
                           Frame(Append(Top.current_path, next_node)))
    /\ UNCHANGED <<adj_list, paths, pc, pipeVars, profVars>>

\* line 56: the for loop is exhausted and the call returns
SearchReturn ==
    /\ pc = "search"
    /\ stack # <<>>
    /\ TopNode # SINK
    /\ TopNode \in DOMAIN adj_list
    /\ Top.next > Len(Children(adj_list, TopNode))
    /\ stack' = Pop
    /\ UNCHANGED <<adj_list, paths, pc, pipeVars, profVars>>

\* line 61-62: assert(len(paths) >= 1); return paths
EnumerateReturn ==
    /\ pc = "search"
    /\ stack = <<>>
    /\ pc' = IF Len(paths) >= 1 THEN "paths" ELSE "AssertionError"
    /\ UNCHANGED <<adj_list, stack, paths, pipeVars, profVars>>

enumerate_paths ==
    \/ SearchSink
    \/ SearchKeyError
    \/ SearchDescend
    \/ SearchReturn
    \/ EnumerateReturn

\* the adjacency maps of the model: edges go forward in Rank (acyclic), the
\* child lists hold no node twice, SOURCE has a child and SINK has none
\* (line 29); stage C may be missing from the keys of the map
DagInputs ==
    UNION { UNION { UNION { UNION { UNION {
      { [n \in (IF hasC THEN Nodes ELSE Nodes \ {"C"}) |->
            OrderedChildren(CASE n = SOURCE -> s0
                              [] n = "A" -> sa
                              [] n = "B" -> sb
                              [] n = "C" -> sc
                              [] n = SINK -> {}, asc)]
        : asc \in BOOLEAN }
      : hasC \in BOOLEAN }
      : sc \in {S \in SUBSET Forward("C") : Cardinality(S) <= MaxOutDegree} }
      : sb \in {S \in SUBSET Forward("B") : Cardinality(S) <= MaxOutDegree} }
      : sa \in {S \in SUBSET Forward("A") : Cardinality(S) <= MaxOutDegree} }
      : s0 \in {S \in SUBSET Forward(SOURCE) :
                   S # {} /\ Cardinality(S) <= MaxOutDegree} }

NoPipeline ==
    /\ node_configs = <<>>
    /\ scale_factors = <<>>
    /\ estimate = "None"
    /\ valid = "None"

NoProfile ==
    /\ raw = <<>>
    /\ profile = <<>>
    /\ ppc = "unused"
    /\ config = "None"
    /\ perf = "None"
    /\ increases = 0

\* line 48-60: paths = [] and the first call search([], SOURCE)
InitPaths ==
    /\ adj_list \in DagInputs
    /\ stack = <<Frame(<<SOURCE>>)>>
    /\ paths = <<>>
    /\ pc = "search"
    /\ NoPipeline
    /\ NoProfile

NextPaths == enumerate_paths

SpecPaths == InitPaths /\ [][NextPaths]_vars

(***************************************************************************)
(* NodeConfig and NodeProfile                                              *)
(***************************************************************************)
\* batch sizes are held in units of 1/BatchDen (NodeConfig.batch_size is a
\* float: a measured mean)
BatchDen == 2

\* resource bundles (gpu_type, num_cpus_per_replica, cloud)
Bundle(g, n, c) == [gpu_type |-> g, num_cpus |-> n, cloud |-> c]
ProfiledBundles == {Bundle("none", 1, "aws"), Bundle("k80", 1, "aws")}
\* a bundle under which no node is profiled; it differs from a profiled one
\* in a single field
UnprofiledBundles == {Bundle("k80", 2, "aws")}

\* line 279-280: the cost of all the entries of one resource bundle is the same
BundleCost(b) == IF b.gpu_type = "none" THEN 1 ELSE 2

ProfiledBatchSizes == {10 * BatchDen, 15 * BatchDen, 20 * BatchDen}
ConfigBatchSizes == {10 * BatchDen - 1, 10 * BatchDen, 12 * BatchDen + 1,
                     15 * BatchDen, 20 * BatchDen + 1}
Throughputs == {100, 200}
Latencies == {1, 2}

\* bound on the number of rows of a profile table
MaxRows == 3
\* bound on NodeConfig.num_replicas
MaxReplicas == 2

Row(i, b, bs, t, l, c) ==
    [idx |-> i, gpu_type |-> b.gpu_type, num_cpus_per_replica |-> b.num_cpus,
     cloud |-> b.cloud, mean_batch_size |-> bs, throughput |-> t,
     p99_latency |-> l, cost |-> c]

NodeConfig(name, num_cpus, gpu_type, batch_size, num_replicas, cloud) ==
    [name |-> name, num_cpus |-> num_cpus, gpu_type |-> gpu_type,
     batch_size |-> batch_size, num_replicas |-> num_replicas, cloud |-> cloud]

Range(s) == {s[i] : i \in 1..Len(s)}

\* the filter with a strict throughput comparison
KeepRowStrictThroughput(x, row) ==
    \/ x.throughput > row.throughput
    \/ x.cost <= row.cost
    \/ x.p99_latency <= row.p99_latency

\* the filter without its latency disjunct
KeepRowNoLatency(x, row) ==
    \/ x.throughput >= row.throughput
    \/ x.cost <= row.cost

\* line 294-296: the rows of `pruned` that pass the filter built from `row`
KeepRow(x, row) ==
    \/ x.throughput >= row.throughput
    \/ x.cost <= row.cost
    \/ x.p99_latency <= row.p99_latency

\* the iteration stopping one row early
IterRowsSkipLast(p) == SubSeq(p, 1, Len(p) - 1)

\* line 292: the rows self.profile.iterrows() yields
IterRows(p) == p

PruneStep(pruned, row) ==
    LET Keep(x) == KeepRow(x, row) IN SelectSeq(pruned, Keep)

RECURSIVE PruneLoop(_, _, _)
PruneLoop(rows, k, pruned) ==
    IF k > Len(rows) THEN pruned
    ELSE PruneLoop(rows, k + 1, PruneStep(pruned, rows[k]))

\* line 284-297: iterate over the original frame, filter the copy
prune_profile(p) == PruneLoop(IterRows(p), 1, p)

\* the bundle filter without its num_cpus_per_replica conjunct
BundleMatchesAnyCpus(p, c) ==
    LET Match(x) == /\ x.gpu_type = c.gpu_type
                    /\ x.cloud = c.cloud
    IN  SelectSeq(p, Match)

\* line 234-237: the rows of the config's resource bundle
BundleMatches(p, c) ==
    LET Match(x) == /\ x.gpu_type = c.gpu_type
                    /\ x.num_cpus_per_replica = c.num_cpus
                    /\ x.cloud = c.cloud
    IN  SelectSeq(p, Match)

\* line 238: sort_values("mean_batch_size"), ascending
RECURSIVE InsertByBatch(_, _)
InsertByBatch(s, x) ==
    IF s = <<>> THEN <<x>>
    ELSE IF Last(s).mean_batch_size <= x.mean_batch_size THEN Append(s, x)
    ELSE Append(InsertByBatch(SubSeq(s, 1, Len(s) - 1), x), Last(s))

RECURSIVE SortValues(_)
SortValues(s) ==
    IF s = <<>> THEN <<>>
    ELSE InsertByBatch(SortValues(SubSeq(s, 1, Len(s) - 1)), Last(s))

\* position in s of the first row with the largest / smallest batch size among
\* the positions P (idxmax / idxmin return the first occurrence)
ArgMaxBatch(s, P) ==
    CHOOSE i \in P :
        \A j \in P : \/ s[j].mean_batch_size < s[i].mean_batch_size
                     \/ (s[j].mean_batch_size = s[i].mean_batch_size /\ i <= j)
ArgMinBatch(s, P) ==
    CHOOSE i \in P :
        \A j \in P : \/ s[j].mean_batch_size > s[i].mean_batch_size
                     \/ (s[j].mean_batch_size = s[i].mean_batch_size /\ i <= j)

\* line 242, 246-250: position of idx_glb in the sorted frame, 0 for None
IdxGlb(s, c) ==
    LET glb == {i \in 1..Len(s) : s[i].mean_batch_size <= c.batch_size}
    IN  IF glb # {} THEN ArgMaxBatch(s, glb) ELSE 0

\* idx_lub taken with idxmax instead of idxmin
IdxLubMax(s, c) ==
    LET lub == {i \in 1..Len(s) : s[i].mean_batch_size >= c.batch_size}
    IN  IF lub # {} THEN ArgMaxBatch(s, lub) ELSE 0

\* line 243, 251-255: position of idx_lub in the sorted frame, 0 for None
IdxLub(s, c) ==
    LET lub == {i \in 1..Len(s) : s[i].mean_batch_size >= c.batch_size}
    IN  IF lub # {} THEN ArgMinBatch(s, lub) ELSE 0

\* np.diff(values) > 0 for every adjacent pair
StrictlyIncreasing(v) == \A i \in 1..(Len(v) - 1) : v[i + 1] - v[i] > 0

\* np.interp(x, xp, fp) for increasing xp: the end values outside the range,
\* slope * (x - xp[j]) + fp[j] on the interval xp[j] <= x < xp[j+1]
Interp(x, xp, fp) ==
    IF x <= xp[1] THEN RatInt(fp[1])
    ELSE IF x >= xp[Len(xp)] THEN RatInt(fp[Len(xp)])
    ELSE LET j == CHOOSE k \in 1..(Len(xp) - 1) : xp[k] <= x /\ x < xp[k + 1]
             slope == Rat(fp[j + 1] - fp[j], xp[j + 1] - xp[j])
         IN  RatAdd(RatMul(slope, RatInt(x - xp[j])), RatInt(fp[j]))

\* the estimate of a single replica whatever the replica count
ScaleByNothing(v, c) == v

\* line 264, 266, 273, 281: "* config.num_replicas"
ScaleByReplicas(v, c) == RatMul(v, RatInt(c.num_replicas))

Column(s, f) == [i \in 1..Len(s) |-> s[i][f]]

Perf(lat, thru, cost, warned) ==
    [status |-> "ok", latency |-> lat, throughput |-> thru, cost |-> cost,
     warning |-> warned]
Raised(kind) == [status |-> kind]

\* line 256-266: only one of glb, lub exists; `warned` records the print of
\* line 262
BoundaryEstimate(s, glb, lub, c) ==
    LET relevant_entry == IF glb = 0 THEN s[lub] ELSE s[glb]
    IN  Perf(RatInt(relevant_entry.p99_latency),
             ScaleByReplicas(RatInt(relevant_entry.throughput), c),
             ScaleByReplicas(RatInt(relevant_entry.cost), c),
             glb # 0)

\* line 267-281: both exist; the rows from idx_glb to idx_lub
InterpolatedEstimate(s, glb, lub, c) ==
    LET relevant_entries == SubSeq(s, glb, lub)
        xp == Column(relevant_entries, "mean_batch_size")
        thru == Column(relevant_entries, "throughput")
        lat == Column(relevant_entries, "p99_latency")
    IN  IF ~StrictlyIncreasing(thru) THEN Raised("AssertionError")
        ELSE IF ~StrictlyIncreasing(lat) THEN Raised("AssertionError")
        ELSE Perf(Interp(c.batch_size, xp, lat),
                  ScaleByReplicas(Interp(c.batch_size, xp, thru), c),
                  ScaleByReplicas(RatInt(relevant_entries[1].cost), c),
                  FALSE)

\* line 215-282
estimate_performance(p, c) ==
    LET resource_bundle_matches == SortValues(BundleMatches(p, c))
        idx_glb == IdxGlb(resource_bundle_matches, c)
        idx_lub == IdxLub(resource_bundle_matches, c)
    IN  IF Len(resource_bundle_matches) = 0 THEN Raised("Exception")
        ELSE IF idx_glb = 0 \/ idx_lub = 0
             THEN BoundaryEstimate(resource_bundle_matches, idx_glb, idx_lub, c)
        ELSE InterpolatedEstimate(resource_bundle_matches, idx_glb, idx_lub, c)

\* the threshold without the floor and the "+ 1": the batch size itself
NextBatchSame(batch_size) == batch_size

\* line 205: math.floor(config.batch_size) + 1, in units of 1 / BatchDen
NextBatch(batch_size) == ((batch_size \div BatchDen) + 1) * BatchDen

\* the comparison of line 205 taken strictly
LubAbove(s, c) ==
    {i \in 1..Len(s) : s[i].mean_batch_size > NextBatch(c.batch_size)}

\* line 205: the rows at or above the threshold
LubFrom(s, c) ==
    {i \in 1..Len(s) : s[i].mean_batch_size >= NextBatch(c.batch_size)}

\* the value increase_batch_size returns when it cannot increase
False == [status |-> "False"]

\* line 189-213: increase_batch_size(config) on the pruned table p; the
\* deep copy is the record c with one field replaced
increase_batch_size(p, c) ==
    LET resource_bundle_matches == SortValues(BundleMatches(p, c))
        lub == LubFrom(resource_bundle_matches, c)
    IN  IF lub = {} THEN False
        ELSE LET idx_lub == ArgMinBatch(resource_bundle_matches, lub)
                 relevant_entry == resource_bundle_matches[idx_lub]
             IN  [c EXCEPT !.batch_size = relevant_entry.mean_batch_size]

\* line 107-122: NodeProfile.__init__ ends with self.prune_profile()
Construct ==
    /\ ppc = "raw"
    /\ profile' = prune_profile(raw)
    /\ ppc' = "ready"
    /\ UNCHANGED <<raw, config, perf, increases, dagVars, pipeVars>>

\* line 284-297: prune_profile called on the constructed object
PruneProfile ==
    /\ ppc = "ready"
    /\ profile' = prune_profile(profile)
    /\ UNCHANGED <<raw, ppc, config, perf, increases, dagVars, pipeVars>>

Configs ==
    {NodeConfig("A", b.num_cpus, b.gpu_type, bs, r, b.cloud) :
        b \in ProfiledBundles \cup UnprofiledBundles,
        bs \in ConfigBatchSizes, r \in 1..MaxReplicas}

\* line 215-282: a call of estimate_performance(config); the profile is not
\* changed by it, so one call per behaviour covers every call
EstimatePerformance ==
    /\ ppc = "ready"
    /\ \E c \in Configs :
          /\ config' = c
          /\ perf' = estimate_performance(profile, c)
    /\ ppc' = "returned"
    /\ UNCHANGED <<raw, profile, increases, dagVars, pipeVars>>

\* line 189-213: the first call of a search loop, increase_batch_size(config)
IncreaseBatchSize ==
    /\ ppc = "ready"
    /\ \E c \in Configs :
          LET new_config == increase_batch_size(profile, c)
          IN  /\ config' = c
              /\ perf' = new_config
              /\ increases' = IF new_config = False THEN 0 ELSE 1
              /\ ppc' = IF new_config = False THEN "cannot_increase"
                                              ELSE "increased"
    /\ UNCHANGED <<raw, profile, dagVars, pipeVars>>

\* line 189-213: the loop feeds the returned config back into
\* increase_batch_size
IncreaseAgain ==
    /\ ppc = "increased"
    /\ LET new_config == increase_batch_size(profile, perf)
       IN  /\ config' = perf
           /\ perf' = new_config
           /\ increases' = IF new_config = False THEN increases
                                                 ELSE increases + 1
           /\ ppc' = IF new_config = False THEN "cannot_increase"
                                           ELSE "increased"
    /\ UNCHANGED <<raw, profile, dagVars, pipeVars>>

NoDag ==
    /\ adj_list = <<>>
    /\ stack = <<>>
    /\ paths = <<>>
    /\ pc = "unused"

\* the keys (bundle, batch size) of a table: one row per key
RowKeys == ProfiledBundles \X ProfiledBatchSizes

KeyRank(k) == (IF k[1].gpu_type = "none" THEN 0 ELSE 100) + k[2]

RECURSIVE OrderedKeys(_, _)
OrderedKeys(K, asc) ==
    IF K = {} THEN <<>>
    ELSE LET first == CHOOSE m \in K :
                        \A k \in K : IF asc THEN KeyRank(m) <= KeyRank(k)
                                            ELSE KeyRank(m) >= KeyRank(k)
         IN  <<first>> \o OrderedKeys(K \ {first}, asc)

\* the raw tables of the profile specification: at most MaxRows rows, no two
\* with the same bundle and batch size, the cost fixed by the bundle
ProfileInputs ==
    UNION { UNION { UNION {
      { [i \in 1..Len(OrderedKeys(K, asc)) |->
            LET k == OrderedKeys(K, asc)[i]
            IN  Row(i - 1, k[1], k[2], t[k], l[k], BundleCost(k[1]))]
        : l \in [K -> Latencies] }
      : t \in [K -> Throughputs] }
      : asc \in BOOLEAN }
      : K \in {S \in SUBSET RowKeys : Cardinality(S) \in 1..MaxRows} }

InitProfile ==
    /\ raw \in ProfileInputs
    /\ profile = raw
    /\ ppc = "raw"
    /\ config = "None"
    /\ perf = "None"
    /\ increases = 0
    /\ NoDag
    /\ NoPipeline

NextProfile ==
    \/ Construct
    \/ PruneProfile
    \/ EstimatePerformance

SpecProfile == InitProfile /\ [][NextProfile]_vars

\* a search loop over increase_batch_size on a constructed profile
NextIncrease ==
    \/ Construct
    \/ IncreaseBatchSize
    \/ IncreaseAgain

SpecIncrease == InitProfile /\ [][NextIncrease]_vars

\* bound on the number of rows of the tables of the pruning specification
MaxPruneRows == 3
\* the values a row's throughput, latency and cost take there
PruneValues == {1, 2, 3}

\* a raw table of the pruning specification: rows of both bundles whose
\* three compared fields are v[i]
PruneTable(n, v) ==
    [i \in 1..n |->
        Row(i - 1,
            IF i % 2 = 1 THEN Bundle("none", 1, "aws")
                         ELSE Bundle("k80", 1, "aws"),
            (10 + i) * BatchDen, v[i][1], v[i][2], v[i][3])]

\* every sequence of at most MaxPruneRows rows: every iteration order of
\* every multiset of rows
InitPrune ==
    /\ \E n \in 1..MaxPruneRows :
          \E v \in [1..n -> PruneValues \X PruneValues \X PruneValues] :
              raw = PruneTable(n, v)
    /\ profile = raw
    /\ ppc = "raw"
    /\ config = "None"
    /\ perf = "None"
    /\ increases = 0
    /\ NoDag
    /\ NoPipeline

NextPrune ==
    \/ Construct
    \/ PruneProfile

SpecPrune == InitPrune /\ [][NextPrune]_vars

(***************************************************************************)
(* estimate_pipeline_performance_for_config                                *)
(***************************************************************************)
\* the profile table of the nodes of the pipeline specification
PipelineRaw ==
    <<Row(0, Bundle("none", 1, "aws"), 10 * BatchDen, 100, 1, 1),
      Row(1, Bundle("none", 1, "aws"), 20 * BatchDen, 200, 2, 1),
      Row(2, Bundle("k80", 1, "aws"), 10 * BatchDen, 200, 1, 2),
      Row(3, Bundle("k80", 1, "aws"), 20 * BatchDen, 100, 3, 2)>>

\* single_node_profiles: every node's NodeProfile, constructed (pruned)
single_node_profiles == [n \in Stages |-> prune_profile(PipelineRaw)]

\* the configs a node of the pipeline specification may get: an exact row,
\* an interpolated point with two replicas, a point above the one retained
\* GPU row, an unprofiled bundle
PipelineConfigs(n) ==
    {NodeConfig(n, 1, "none", 10 * BatchDen, 1, "aws"),
     NodeConfig(n, 1, "none", 15 * BatchDen, 2, "aws"),
     NodeConfig(n, 1, "k80", 15 * BatchDen, 1, "aws"),
     NodeConfig(n, 2, "k80", 10 * BatchDen, 1, "aws")}

ScaleFactors == {<<1, 2>>, <<1, 1>>, <<2, 1>>}

Dag(s0, sa, sb, sc) ==
    [n \in Nodes |-> CASE n = SOURCE -> s0
                       [] n = "A" -> sa
                       [] n = "B" -> sb
                       [] n = "C" -> sc
                       [] n = SINK -> <<>>]

\* the graphs of the pipeline specification: a chain, a diamond, two
\* parallel branches, the shapes of pipeline_two and pipeline_three
\* (line 320-326, 331-337), graphs with a direct SOURCE -> SINK edge, and a
\* map with an edge to a node that is no key
PipelineGraphs ==
    {Dag(<<"A">>, <<"B">>, <<"C">>, <<SINK>>),
     Dag(<<"A", "B">>, <<"C">>, <<"C">>, <<SINK>>),
     Dag(<<"B", "A">>, <<SINK>>, <<"C">>, <<SINK>>),
     Dag(<<"A">>, <<"B", "C", SINK>>, <<SINK>>, <<"B">>),
     Dag(<<"A">>, <<"B", SINK>>, <<"C", SINK>>, <<SINK>>),
     Dag(<<"C", SINK>>, <<SINK>>, <<SINK>>, <<SINK>>),
     Dag(<<SINK>>, <<SINK>>, <<SINK>>, <<SINK>>),
     [n \in Nodes \ {"C"} |-> Dag(<<"A">>, <<SINK, "C">>, <<SINK>>, <<>>)[n]]}

\* total_cost = cost, the accumulation lost
AssignCost(total_cost, cost) == cost

\* line 435: total_cost += cost
AccumulateCost(total_cost, cost) == RatAdd(total_cost, cost)

\* thru * scale_factors[node]
ScaledThruputMultiplied(thru, sf) == RatMul(thru, sf)

\* line 425: scaled_thru = thru / scale_factors[node]
ScaledThruput(thru, sf) == RatDiv(thru, sf)

\* the path latencies summed across the paths
SumLatency(max_latency, path_latency) ==
    IF max_latency = "None" THEN path_latency
    ELSE RatAdd(max_latency, path_latency)

\* line 437-439: the latency update at the end of a path
UpdateMaxLatency(max_latency, path_latency) ==
    LET first == IF max_latency = "None" THEN path_latency ELSE max_latency
    IN  RatMax(first, path_latency)

\* line 422-435: one non-sentinel node of a path
VisitNode(acc, node, sfs, confs) ==
    LET prof == single_node_profiles[node]
        conf == confs[node]
        res == estimate_performance(prof, conf)
    IN  IF res.status # "ok" THEN [acc EXCEPT !.error = res.status]
        ELSE
        LET scaled_thru == ScaledThruput(res.throughput, sfs[node])
            first == acc.bottleneck_thruput = "None"
            thruput1 == IF first THEN scaled_thru ELSE acc.bottleneck_thruput
            node1 == IF first THEN node ELSE acc.bottleneck_node
            lower == RatLess(scaled_thru, thruput1)
        IN  [acc EXCEPT
                !.path_latency = RatAdd(@, res.latency),
                !.bottleneck_thruput = IF lower THEN scaled_thru ELSE thruput1,
                !.bottleneck_node = IF lower THEN node ELSE node1,
                !.total_cost = AccumulateCost(@, res.cost)]

\* line 417-435: the nodes of one path, SOURCE and SINK skipped
RECURSIVE NodeLoop(_, _, _, _, _)
NodeLoop(path, k, acc, sfs, confs) ==
    IF k > Len(path) \/ acc.error # "None" THEN acc
    ELSE IF path[k] = SOURCE \/ path[k] = SINK
         THEN NodeLoop(path, k + 1, acc, sfs, confs)
    ELSE NodeLoop(path, k + 1, VisitNode(acc, path[k], sfs, confs), sfs, confs)

\* line 415-439: the paths in turn
RECURSIVE PathLoop(_, _, _, _, _)
PathLoop(ps, i, acc, sfs, confs) ==
    IF i > Len(ps) \/ acc.error # "None" THEN acc
    ELSE LET walked == NodeLoop(ps[i], 1, [acc EXCEPT !.path_latency = <<0, 1>>],
                                sfs, confs)
         IN  IF walked.error # "None" THEN walked
             ELSE PathLoop(ps, i + 1,
                           [walked EXCEPT !.max_latency =
                               UpdateMaxLatency(@, walked.path_latency)],
                           sfs, confs)

\* line 410-444, after enumerate_paths has returned `ps`
estimate_pipeline_performance_for_config(ps, sfs, confs) ==
    LET acc == PathLoop(ps, 1,
                        [bottleneck_thruput |-> "None",
                         bottleneck_node |-> "None",
                         total_cost |-> <<0, 1>>,
                         max_latency |-> "None",
                         path_latency |-> <<0, 1>>,
                         error |-> "None"],
                        sfs, confs)
    IN  IF acc.error # "None" THEN Raised(acc.error)
        ELSE [status |-> "ok",
              latency |-> acc.max_latency,
              throughput |-> acc.bottleneck_thruput,
              cost |-> acc.total_cost,
              bottleneck_node |-> acc.bottleneck_node]

\* line 411-444: the loops over the enumerated paths and the return
EstimatePipeline ==
    /\ pc = "paths"
    /\ node_configs # <<>>
    /\ estimate' = estimate_pipeline_performance_for_config(
                       paths, scale_factors, node_configs)
    /\ pc' = "estimated"
    /\ UNCHANGED <<adj_list, stack, paths, node_configs, scale_factors, valid,
                   profVars>>

\* line 386-410: the call, up to the first step of dag.enumerate_paths()
InitPipeline ==
    /\ adj_list \in PipelineGraphs
    /\ stack = <<Frame(<<SOURCE>>)>>
    /\ paths = <<>>
    /\ pc = "search"
    /\ node_configs \in {c \in [Stages -> UNION {PipelineConfigs(n) : n \in Stages}] :
                            \A n \in Stages : c[n].name = n}
    /\ scale_factors \in [Stages -> ScaleFactors]
    /\ estimate = "None"
    /\ valid = "None"
    /\ NoProfile

NextPipeline ==
    \/ enumerate_paths
    \/ EstimatePipeline

SpecPipeline == InitPipeline /\ [][NextPipeline]_vars

\* estimate_performance called directly and from the pipeline estimate
InitEstimate == InitProfile \/ InitPipeline

NextEstimate ==
    \/ Construct
    \/ PruneProfile
    \/ EstimatePerformance
    \/ enumerate_paths
    \/ EstimatePipeline

SpecEstimate == InitEstimate /\ [][NextEstimate]_vars

(***************************************************************************)
(* is_valid_pipeline_config                                                *)
(***************************************************************************)

Clouds == {"aws", "gcp"}

\* the configs a stage of a checked map can carry
ValidityConfigs(n) ==
    {NodeConfig(n, cpus, g, 10 * BatchDen, r, cl) :
        cpus \in {1}, g \in {"none", "k80"}, r \in 1..MaxReplicas, cl \in Clouds}

\* the configuration maps checked: a config for each stage of any subset of
\* the stages, the empty map included
ValidityMaps ==
    UNION {{c \in [S -> UNION {ValidityConfigs(n) : n \in S}] :
                \A n \in S : c[n].name = n} : S \in SUBSET Stages}

\* the orders in which a dict with the keys K can yield its items
RECURSIVE ItemOrders(_)
ItemOrders(K) ==
    IF K = {} THEN {<<>>}
    ELSE UNION {{<<k>> \o o : o \in ItemOrders(K \ {k})} : k \in K}

Returns(v) == [status |-> "returned", value |-> v]

\* line 492-494: next(clouds) on the empty iterator raises StopIteration; all
\* consumes the rest of the iterator
is_valid_pipeline_config(confs, keys) ==
    LET clouds == [i \in 1..Len(keys) |-> confs[keys[i]].cloud]
    IN  IF Len(clouds) = 0 THEN Raised("StopIteration")
        ELSE LET first == clouds[1]
             IN  Returns(\A i \in 2..Len(clouds) : first = clouds[i])

\* line 482-494: a call of is_valid_pipeline_config(node_configs); keys is
\* the insertion order of the dict
IsValidPipelineConfig ==
    /\ pc = "check"
    /\ \E keys \in ItemOrders(DOMAIN node_configs) :
          valid' = is_valid_pipeline_config(node_configs, keys)
    /\ pc' = "checked"
    /\ UNCHANGED <<adj_list, stack, paths, node_configs, scale_factors,
                   estimate, profVars>>

InitValid ==
    /\ adj_list = <<>>
    /\ stack = <<>>
    /\ paths = <<>>
    /\ pc = "check"
    /\ node_configs \in ValidityMaps
    /\ scale_factors = <<>>
    /\ estimate = "None"
    /\ valid = "None"
    /\ NoProfile

NextValid == IsValidPipelineConfig

SpecValid == InitValid /\ [][NextValid]_vars

(***************************************************************************)
(* enumerate_paths on adjacency maps with cycles                           *)
(***************************************************************************)

\* the depth of nested search() calls at which the interpreter raises
\* RecursionError; deeper than every path of an acyclic map of the model
RecursionLimit == 6

CycleNodes == {SOURCE, "A", "B", SINK}

\* adjacency maps over SOURCE, A, B and SINK with edges in any direction,
\* self-loops included; SOURCE has a child and SINK has none (line 29)
CyclicInputs ==
    UNION { UNION { UNION {
      { [n \in CycleNodes |->
            OrderedChildren(CASE n = SOURCE -> s0
                              [] n = "A" -> sa
                              [] n = "B" -> sb
                              [] n = SINK -> {}, asc)]
        : asc \in BOOLEAN }
      : sb \in SUBSET CycleNodes }
      : sa \in SUBSET CycleNodes }
      : s0 \in (SUBSET (CycleNodes \ {SOURCE})) \ {{}} }

\* line 56-58: a nested call of search() below the recursion limit
SearchDescendBelowLimit ==
    /\ Len(stack) < RecursionLimit
    /\ SearchDescend

\* line 58: the nested call of search() that exceeds the recursion limit
\* raises RecursionError, which nothing catches
SearchRecursionError ==
    /\ pc = "search"
    /\ stack # <<>>
    /\ TopNode # SINK
    /\ TopNode \in DOMAIN adj_list
    /\ Top.next <= Len(Children(adj_list, TopNode))
    /\ Len(stack) >= RecursionLimit
    /\ pc' = "RecursionError"
    /\ stack' = <<>>
    /\ UNCHANGED <<adj_list, paths, pipeVars, profVars>>

InitCyclic ==
    /\ adj_list \in CyclicInputs
    /\ stack = <<Frame(<<SOURCE>>)>>
    /\ paths = <<>>
    /\ pc = "search"
    /\ NoPipeline
    /\ NoProfile

NextCyclic ==
    \/ SearchSink
    \/ SearchDescendBelowLimit
    \/ SearchReturn
    \/ EnumerateReturn
    \/ SearchRecursionError

\* the interpreter runs the call to its end: a step that can be taken is taken
SpecCyclic == InitCyclic /\ [][NextCyclic]_vars /\ WF_vars(NextCyclic)

(***************************************************************************)
(* Properties of prune_profile                                             *)
(***************************************************************************)
Pruned == ppc \in {"ready", "returned"}
Retained(i) == raw[i] \in Range(profile)
OtherRows(i) == {j \in 1..Len(raw) : j # i}

\* row j is at least as good as row i on throughput, cost and latency
AtLeastAsGood(j, i) ==
    /\ raw[j].throughput >= raw[i].throughput
    /\ raw[j].cost <= raw[i].cost
    /\ raw[j].p99_latency <= raw[i].p99_latency

\* row j is strictly better than row i on throughput, cost and latency
StrictlyBetter(j, i) ==
    /\ raw[j].throughput > raw[i].throughput
    /\ raw[j].cost < raw[i].cost
    /\ raw[j].p99_latency < raw[i].p99_latency

\* C5 as stated: a row is retained iff every other row is strictly worse on
\* at least one field, i.e. dropped exactly when some other row is at least
\* as good on all three fields.
C5_DroppedIffWeaklyDominated ==
    Pruned => \A i \in 1..Len(raw) :
                 Retained(i) <=> ~(\E j \in OtherRows(i) : AtLeastAsGood(j, i))

\* C5 amended: a row is retained iff no row is strictly better on all three
\* fields (for every other row j: j.throughput <= i.throughput or
\* j.cost >= i.cost or j.latency >= i.latency); ties are kept.
C5_DroppedIffStrictlyDominated ==
    Pruned => \A i \in 1..Len(raw) :
                 Retained(i) <=> ~(\E j \in OtherRows(i) : StrictlyBetter(j, i))

\* a row was dropped, and a retained row is tied-or-beaten on all three
\* fields by another row
C5_Witness ==
    /\ Pruned
    /\ \E i \in 1..Len(raw) : ~Retained(i)
    /\ \E i \in 1..Len(raw) :
          Retained(i) /\ \E j \in OtherRows(i) : AtLeastAsGood(j, i)

ParetoOptimal(i) ==
    ~(\E j \in OtherRows(i) :
         /\ AtLeastAsGood(j, i)
         /\ \/ raw[j].throughput > raw[i].throughput
            \/ raw[j].cost < raw[i].cost
            \/ raw[j].p99_latency < raw[i].p99_latency)

\* C6: pruning keeps every Pareto-optimal row and drops every row that is
\* strictly worse than some other row on throughput, cost and latency.
C6_KeepsParetoDropsStrictlyWorse ==
    Pruned => \A i \in 1..Len(raw) :
                 /\ ParetoOptimal(i) => Retained(i)
                 /\ (\E j \in OtherRows(i) : StrictlyBetter(j, i)) => ~Retained(i)

\* a table with a retained Pareto-optimal row, a dropped row, and a retained
\* row that is not Pareto-optimal
C6_Witness ==
    /\ Pruned
    /\ \E i \in 1..Len(raw) : ParetoOptimal(i) /\ Retained(i)
    /\ \E i \in 1..Len(raw) : ~Retained(i)
    /\ \E i \in 1..Len(raw) : ~ParetoOptimal(i) /\ Retained(i)

Permute(s, f) == [i \in 1..Len(s) |-> s[f[i]]]

\* C7: pruning the pruned table again yields the same table, and pruning the
\* raw table in any other row order keeps the same set of rows.
C7_IdempotentOrderIndependent ==
    Pruned =>
        /\ prune_profile(profile) = profile
        /\ \A f \in Permutations(1..Len(raw)) :
              Range(prune_profile(Permute(raw, f))) = Range(profile)

\* pruning dropped a row of a three-row table and kept more than one
C7_Witness ==
    /\ Pruned
    /\ Len(raw) = 3
    /\ Len(profile) = 2

(***************************************************************************)
(* Properties of estimate_performance                                      *)
(***************************************************************************)
Returned == ppc = "returned"

\* the retained rows of the config's resource bundle
InBundle ==
    {x \in Range(profile) : /\ x.gpu_type = config.gpu_type
                            /\ x.num_cpus_per_replica = config.num_cpus
                            /\ x.cloud = config.cloud}
Below == {x \in InBundle : x.mean_batch_size < config.batch_size}
Above == {x \in InBundle : x.mean_batch_size > config.batch_size}
Exact == {x \in InBundle : x.mean_batch_size = config.batch_size}
Smallest(S) == CHOOSE x \in S : \A y \in S : x.mean_batch_size <= y.mean_batch_size
Largest(S) == CHOOSE x \in S : \A y \in S : x.mean_batch_size >= y.mean_batch_size

\* y0 + (b - x0) * (y1 - y0) / (x1 - x0), times k
Linear(k, x0, y0, x1, y1, b) ==
    Rat(k * (y0 * (x1 - x0) + (b - x0) * (y1 - y0)), x1 - x0)

Interpolating == Returned /\ Below # {} /\ Above # {} /\ Exact = {}

InterpolatedValues(r0, r1) ==
    /\ perf.status = "ok"
    /\ perf.throughput = Linear(config.num_replicas,
                                r0.mean_batch_size, r0.throughput,
                                r1.mean_batch_size, r1.throughput,
                                config.batch_size)
    /\ perf.latency = Linear(1, r0.mean_batch_size, r0.p99_latency,
                             r1.mean_batch_size, r1.p99_latency,
                             config.batch_size)

\* C8 as stated: with profiled batch sizes x0 < b < x1 around the config's
\* batch size b, the call returns, whatever the two rows' throughput and
\* latency are, throughput = replicas * (t0 + (b - x0)(t1 - t0)/(x1 - x0))
\* and latency = l0 + (b - x0)(l1 - l0)/(x1 - x0).
C8_InterpolatesWhateverTheValues ==
    Interpolating => InterpolatedValues(Largest(Below), Smallest(Above))

\* C8, what the code does: the interpolated values are returned when both
\* throughput and latency strictly increase from the lower to the upper row,
\* and the call fails with an AssertionError otherwise.
C8_InterpolatesOnlyWhenIncreasing ==
    Interpolating =>
        LET r0 == Largest(Below)
            r1 == Smallest(Above)
        IN  IF r0.throughput < r1.throughput /\ r0.p99_latency < r1.p99_latency
            THEN InterpolatedValues(r0, r1)
            ELSE perf.status = "AssertionError"

\* the example of the claim: rows (10, 100) and (20, 200), batch size 15 and
\* one replica give throughput 150
C8_Example ==
    /\ Interpolating
    /\ config.num_replicas = 1
    /\ config.batch_size = 15 * BatchDen
    /\ Largest(Below).mean_batch_size = 10 * BatchDen
    /\ Largest(Below).throughput = 100
    /\ Smallest(Above).mean_batch_size = 20 * BatchDen
    /\ Smallest(Above).throughput = 200
    /\ perf.status = "ok"
    /\ perf.throughput = <<150, 1>>

\* C9: a config whose batch size is that of a retained row of its bundle
\* gets (row.latency, replicas * row.throughput, replicas * row.cost).
C9_ExactRowScaledByReplicas ==
    Returned => \A row \in Exact :
                   /\ perf.status = "ok"
                   /\ perf.latency = <<row.p99_latency, 1>>
                   /\ perf.throughput = <<config.num_replicas * row.throughput, 1>>
                   /\ perf.cost = <<config.num_replicas * row.cost, 1>>

\* an exact match with two replicas, between a smaller and a larger retained
\* row of the same bundle
C9_Witness ==
    /\ Returned
    /\ Exact # {}
    /\ Below # {}
    /\ Above # {}
    /\ config.num_replicas = 2
    /\ perf.status = "ok"

BoundaryValues(row) ==
    /\ perf.status = "ok"
    /\ perf.latency = <<row.p99_latency, 1>>
    /\ perf.throughput = <<config.num_replicas * row.throughput, 1>>
    /\ perf.cost = <<config.num_replicas * row.cost, 1>>

\* C10: a batch size below every profiled batch size of the bundle gets the
\* values of the smallest-batch row, one above every profiled batch size
\* those of the largest-batch row (throughput and cost times the replica
\* count, latency as it is).
C10_BoundaryRowOutsideRange ==
    Returned /\ InBundle # {} =>
        /\ (Below = {} /\ Exact = {}) => BoundaryValues(Smallest(InBundle))
        /\ (Above = {} /\ Exact = {}) => BoundaryValues(Largest(InBundle))

\* a batch size below the smallest of three retained rows of the bundle,
\* whose values differ from the largest row's, with two replicas
C10_Witness ==
    /\ Returned
    /\ Cardinality(InBundle) = 3
    /\ Below = {}
    /\ Exact = {}
    /\ config.num_replicas = 2
    /\ Smallest(InBundle).throughput # Largest(InBundle).throughput
    /\ perf.status = "ok"

\* the batch size lies outside the profiled batch sizes of the bundle
OutsideRange == InBundle # {} /\ Exact = {} /\ (Below = {} \/ Above = {})

\* C11 as stated: a call with a batch size outside the profiled range of its
\* bundle, below or above, returns the estimate and signals a warning; a
\* call inside the range signals none.
C11_WarnsOutsideRangeOnly ==
    Returned /\ InBundle # {} =>
        /\ OutsideRange => perf.status = "ok"
        /\ perf.status = "ok" => (perf.warning <=> OutsideRange)

\* C11, what the code does: the warning is printed only above the largest
\* profiled batch size; below the smallest the estimate comes silently.
C11_WarnsAboveRangeOnly ==
    Returned /\ InBundle # {} =>
        /\ OutsideRange => perf.status = "ok"
        /\ perf.status = "ok" => (perf.warning <=> (Exact = {} /\ Above = {}))

\* rows of a stage's profile that match its config's resource bundle
StageMatches(n) ==
    {x \in Range(single_node_profiles[n]) :
        /\ x.gpu_type = node_configs[n].gpu_type
        /\ x.num_cpus_per_replica = node_configs[n].num_cpus
        /\ x.cloud = node_configs[n].cloud}

\* C12: estimate_performance raises exactly when no retained row matches the
\* config's bundle, whatever the batch size and replica count, and a
\* pipeline estimate with such a stage on a path returns no result.
C12_NoProfileRaisesAndPropagates ==
    /\ Returned => (perf.status = "Exception" <=> InBundle = {})
    /\ pc = "estimated" =>
          ((\E i \in 1..Len(paths) : \E n \in Range(paths[i]) \cap Stages :
                StageMatches(n) = {})
               => estimate.status = "Exception")

\* a pipeline estimate that raised because of a stage that is not the first
\* one walked
C12_Witness ==
    /\ pc = "estimated"
    /\ estimate.status = "Exception"
    /\ Len(paths[1]) > 3
    /\ StageMatches(paths[1][2]) # {}

\* a direct call that raised for a bundle that differs from a profiled one
\* only in its cpu count
C12_WitnessDirect ==
    /\ Returned
    /\ perf.status = "Exception"
    /\ \E x \in Range(profile) : x.gpu_type = config.gpu_type /\ x.cloud = config.cloud

\* floor(b) + 1 for a batch size b: the integer k with k - 1 <= b < k, in
\* units of 1 / BatchDen
FloorPlusOne(b) ==
    BatchDen * (CHOOSE k \in 0..(b + 1) :
                    (k - 1) * BatchDen <= b /\ b < k * BatchDen)

\* batch sizes of the bundle's retained rows at or above floor(batch_size) + 1
AtOrAboveNext ==
    {x.mean_batch_size : x \in {y \in InBundle :
        y.mean_batch_size >= FloorPlusOne(config.batch_size)}}

\* batch sizes of the bundle's retained rows above floor(batch_size) + 1
AboveNext ==
    {x.mean_batch_size : x \in {y \in InBundle :
        y.mean_batch_size > FloorPlusOne(config.batch_size)}}

Least(S) == CHOOSE m \in S : \A x \in S : m <= x

Increased == ppc = "increased"
CannotIncrease == ppc = "cannot_increase"

\* the call returned config with only its batch size replaced, by the least
\* batch size of S, or False when S is empty
IncreasesToLeastOf(S) ==
    /\ Increased =>
          /\ S # {}
          /\ perf = [config EXCEPT !.batch_size = Least(S)]
    /\ CannotIncrease => S = {} /\ perf = False

\* C13 as stated: the returned copy carries the smallest profiled batch size
\* of the bundle strictly greater than floor(batch_size) + 1, and False is
\* returned exactly when there is none.
C13_NextStrictlyAboveFloorPlusOne == IncreasesToLeastOf(AboveNext)

\* C13 amended: the returned copy carries the smallest profiled batch size
\* of the bundle greater than or equal to floor(batch_size) + 1, every other
\* field equal to the input's, and False is returned exactly when there is
\* none, an empty bundle included.
C13_NextAtLeastFloorPlusOne == IncreasesToLeastOf(AtOrAboveNext)

\* a call that returned the profiled batch size equal to floor(batch_size) + 1
C13_Witness ==
    /\ Increased
    /\ perf.batch_size = FloorPlusOne(config.batch_size)
    /\ AboveNext # {}

\* a call on a bundle with no rows returned False
C13_WitnessEmptyBundle == CannotIncrease /\ InBundle = {} /\ increases = 0

\* C16: a returned config has a batch size strictly greater than the
\* input's, so a loop feeding the result back returns at most as many
\* configs as the bundle has retained rows before it gets False.
C16_StrictIncreaseBoundsTheLoop ==
    /\ Increased => perf.batch_size > config.batch_size
    /\ (Increased \/ CannotIncrease) => increases <= Cardinality(InBundle)

\* a loop that returned every row of a full bundle, one per call, before it
\* got False
C16_Witness ==
    /\ CannotIncrease
    /\ increases = MaxRows
    /\ Cardinality(InBundle) = MaxRows

Checked == pc = "checked"

AllSameCloud ==
    \A n \in DOMAIN node_configs : \A k \in DOMAIN node_configs :
        node_configs[n].cloud = node_configs[k].cloud

\* C14 as stated: for every configuration map the call returns a boolean,
\* true exactly when all stage configs name the same cloud, and never raises.
C14_BooleanForEveryMap ==
    Checked => valid.status = "returned" /\ valid.value = AllSameCloud

\* C14, what the code does: a boolean, true exactly when all clouds agree,
\* for every map with at least one stage; StopIteration for the empty map.
C14_BooleanForNonEmptyMaps ==
    Checked =>
        IF DOMAIN node_configs = {} THEN valid.status = "StopIteration"
        ELSE valid.status = "returned" /\ valid.value = AllSameCloud

\* the nodes reached from the nodes of S by zero or more edges of a
RECURSIVE Closure(_, _)
Closure(a, S) ==
    LET T == S \cup {m \in CycleNodes :
                        \E n \in S \cap DOMAIN a : \E i \in 1..Len(a[n]) : a[n][i] = m}
    IN  IF T = S THEN S ELSE Closure(a, T)

\* n lies on a cycle of a: n is reached from one of its own children
OnCycle(a, n) ==
    \E i \in 1..Len(a[n]) : n \in Closure(a, {a[n][i]})

HasCycle == \E n \in DOMAIN adj_list : OnCycle(adj_list, n)

HasReachableCycle ==
    \E n \in Closure(adj_list, {SOURCE}) \cap DOMAIN adj_list : OnCycle(adj_list, n)

ReturnedFromSearch == pc \in {"paths", "AssertionError"}

\* C15 as stated: enumerate_paths terminates on every acyclic adjacency map
\* and does not terminate on any adjacency map that contains a cycle.
C15_TerminatesIffAcyclic ==
    /\ (~HasCycle) ~> (pc # "search")
    /\ [](HasCycle => pc = "search")

\* C15 amended: on a map with no cycle reachable from SOURCE the search ends
\* and enumerate_paths returns its paths or fails its assertion; on a map
\* with a cycle reachable from SOURCE it never returns: the recursion, which
\* keeps no visited set, deepens until the interpreter raises RecursionError.
C15_ReturnsIffNoReachableCycle ==
    /\ (~HasReachableCycle) ~> ReturnedFromSearch
    /\ [](HasReachableCycle => ~ReturnedFromSearch)
    /\ HasReachableCycle ~> (pc = "RecursionError")

\* a search that recorded a path and then ran into the recursion limit on a
\* cycle
C15_Witness ==
    /\ pc = "RecursionError"
    /\ Len(paths) >= 1
    /\ HasReachableCycle

(***************************************************************************)
(* Properties of enumerate_paths                                           *)
(***************************************************************************)
\* the SOURCE-to-SINK routes of an acyclic adjacency map: node sequences
\* from SOURCE to SINK over keys of the map, each step an edge of the map
Routes(a) ==
    {p \in UNION {[1..n -> Nodes] : n \in 2..Cardinality(Nodes)} :
        /\ p[1] = SOURCE
        /\ p[Len(p)] = SINK
        /\ \A k \in 1..Len(p) : p[k] \in DOMAIN a
        /\ \A k \in 1..(Len(p) - 1) : p[k + 1] \in Range(a[p[k]])}

\* a child list names a node that is no key of the map
DanglingEdge(a) == \E n \in DOMAIN a : \E m \in Range(a[n]) : m \notin DOMAIN a

\* C4: the returned paths are exactly the SOURCE-to-SINK routes of the map,
\* each once; the call fails only when there is no route (AssertionError) or
\* when an edge leads to a node that is no key of the map (KeyError).
C4_PathsAreExactlyTheRoutes ==
    /\ pc = "paths" =>
          /\ Range(paths) = Routes(adj_list)
          /\ \A i, j \in 1..Len(paths) : paths[i] = paths[j] => i = j
    /\ pc = "AssertionError" => Routes(adj_list) = {}
    /\ pc = "KeyError" => DanglingEdge(adj_list)

\* a diamond: three routes rejoin at C, whose only child is SINK, and three
\* paths run through C, some through A and some through B
C4_Witness ==
    /\ pc = "paths"
    /\ Len(paths) = 3
    /\ "C" \in DOMAIN adj_list
    /\ adj_list["C"] = <<SINK>>
    /\ \A i \in 1..3 : "C" \in Range(paths[i])
    /\ \E i \in 1..3 : "A" \in Range(paths[i])
    /\ \E i \in 1..3 : "B" \in Range(paths[i])

(***************************************************************************)
(* Properties of estimate_pipeline_performance_for_config                  *)
(***************************************************************************)
Estimated == pc = "estimated" /\ estimate.status = "ok"

\* what the stage's own estimate_performance returns for its config
StagePerf(n) == estimate_performance(single_node_profiles[n], node_configs[n])

RoutesThrough(R, n) == {p \in R : n \in Range(p)}
StagesOn(R) == {n \in Stages : RoutesThrough(R, n) # {}}
StagesOf(p) == Range(p) \cap Stages

RECURSIVE RatSum(_, _)
\* the sum of f[x] over x in S
RatSum(S, f) ==
    IF S = {} THEN <<0, 1>>
    ELSE LET x == CHOOSE y \in S : TRUE
         IN  RatAdd(f[x], RatSum(S \ {x}, f))

\* C1: the returned cost is the sum over the stages of (number of
\* SOURCE-to-SINK paths through the stage) * (the stage's cost).
C1_CostCountsEveryOccurrence ==
    Estimated =>
        LET R == Routes(adj_list)
        IN  estimate.cost =
                RatSum(StagesOn(R),
                       [n \in StagesOn(R) |->
                           RatMul(RatInt(Cardinality(RoutesThrough(R, n))),
                                  StagePerf(n).cost)])

\* a stage on two paths and a stage on one path, of different cost
C1_Witness ==
    /\ Estimated
    /\ \E n, m \in Stages :
          /\ Cardinality(RoutesThrough(Range(paths), n)) = 2
          /\ Cardinality(RoutesThrough(Range(paths), m)) = 1
          /\ StagePerf(n).cost # StagePerf(m).cost

ScaledStageThruput(n) == RatDiv(StagePerf(n).throughput, scale_factors[n])

\* C2: with a stage on some path, the returned throughput is the least
\* throughput / scale factor over the stages on the paths, and the returned
\* bottleneck is a stage that attains it.
C2_ThroughputIsLeastScaled ==
    Estimated =>
        LET S == StagesOn(Routes(adj_list))
        IN  S # {} =>
              /\ \A n \in S : RatLeq(estimate.throughput, ScaledStageThruput(n))
              /\ estimate.bottleneck_node \in S
              /\ ScaledStageThruput(estimate.bottleneck_node) = estimate.throughput

\* three stages; the bottleneck is not the first stage visited, its scale
\* factor is not 1, and its unscaled throughput is not the least
C2_Witness ==
    /\ Estimated
    /\ Cardinality(StagesOn(Range(paths))) = 3
    /\ estimate.bottleneck_node # paths[1][2]
    /\ scale_factors[estimate.bottleneck_node] # <<1, 1>>
    /\ \E n \in Stages :
          RatLess(StagePerf(n).throughput,
                  StagePerf(estimate.bottleneck_node).throughput)

RouteLatency(p) == RatSum(StagesOf(p), [n \in StagesOf(p) |-> StagePerf(n).latency])

\* C3: the returned latency is the largest, over the paths, of the sum of
\* the latencies of the stages of the path.
C3_LatencyIsSlowestPath ==
    Estimated =>
        LET R == Routes(adj_list)
        IN  /\ \A p \in R : RatLeq(RouteLatency(p), estimate.latency)
            /\ \E p \in R : RouteLatency(p) = estimate.latency

\* three paths of different latency, the slowest not the last one walked
C3_Witness ==
    /\ Estimated
    /\ Len(paths) = 3
    /\ RouteLatency(paths[3]) # estimate.latency
    /\ \A i, j \in 1..3 : i # j => RouteLatency(paths[i]) # RouteLatency(paths[j])

====
